---- MODULE Spec2Model ----
(***************************************************************************)
(* Model of the intent-scoring pipeline: the event generator               *)
(* (data/generate_users.py), the aggregator (featurize.py, main.py         *)
(* run_featurize), the rule-based scorer (score_rules.py), the scoring     *)
(* embedded in find_user_features.py and the ranking step (main.py         *)
(* run_rank).                                                              *)
(*                                                                         *)
(* Numbers.  A float cell of a table is a pair <<n, d>>: the rational n/d  *)
(* with d > 0 in lowest terms, or NaN == <<0, 0>> for a missing cell.      *)
(* Arithmetic is exact and propagates NaN; every ordered comparison with   *)
(* NaN is FALSE, as in IEEE 754.  round(x, k) is round-half-even on the    *)
(* exact value.                                                            *)
(***************************************************************************)
EXTENDS Integers, Sequences, FiniteSets, TLC

VARIABLES
    pc,          \* position of the running command
    events,      \* raw_events.csv: the event rows, in file order
    gen,         \* generator loop state: [user, session] being generated
    user,        \* user_features: the table build_user_features returns
    user_df,     \* the feature table score_users_rules is given
    max_vals,    \* the population maxima of score_users_rules
    results,     \* the per-row results list of score_users_rules
    result_df,   \* the table score_users_rules returns
    scored_df,   \* the scored table run_rank reads
    args_n,      \* args.n of run_rank
    args,        \* args.mode, args.n_users and args.seed of main
    top_users,   \* the ranked table run_rank writes
    columns,     \* the columns of the table the running command reads
    arg_weights, \* the weights argument of score_users_rules, <<>> for None
    error,       \* the exception the running command raised, "" for none
    written,     \* the output files written
    now          \* the clock read by the latest build_user_features

vars == <<pc, events, gen, user, user_df, max_vals, results, result_df,
          scored_df, args_n, args, top_users, columns, arg_weights, error, written,
          now>>

-----------------------------------------------------------------------------
(* Floats *)

NaN == <<0, 0>>

IsNaN(x) == x[2] = 0

Abs(n) == IF n < 0 THEN -n ELSE n

RECURSIVE GCD(_, _)
GCD(a, b) == IF b = 0 THEN a ELSE GCD(b, a % b)

\* n/d in lowest terms, d > 0
Frac(n, d) ==
    LET g == GCD(Abs(n), d)
    IN  <<n \div g, d \div g>>

Num(n) == <<n, 1>>

FAdd(x, y) ==
    IF IsNaN(x) \/ IsNaN(y) THEN NaN
    ELSE Frac(x[1] * y[2] + y[1] * x[2], x[2] * y[2])

FSub(x, y) ==
    IF IsNaN(x) \/ IsNaN(y) THEN NaN
    ELSE Frac(x[1] * y[2] - y[1] * x[2], x[2] * y[2])

FMul(x, y) ==
    IF IsNaN(x) \/ IsNaN(y) THEN NaN
    ELSE Frac(x[1] * y[1], x[2] * y[2])

\* x / y for y > 0 (every division of the program is guarded by y > 0)
FDiv(x, y) ==
    IF IsNaN(x) \/ IsNaN(y) THEN NaN
    ELSE Frac(x[1] * y[2], x[2] * y[1])

FLt(x, y) == ~IsNaN(x) /\ ~IsNaN(y) /\ x[1] * y[2] < y[1] * x[2]
FLe(x, y) == ~IsNaN(x) /\ ~IsNaN(y) /\ x[1] * y[2] <= y[1] * x[2]
FGt(x, y) == FLt(y, x)
FGe(x, y) == FLe(y, x)

\* Python max(a, b): b if b > a else a;  min(a, b): b if b < a else a
PyMax(a, b) == IF FGt(b, a) THEN b ELSE a
PyMin(a, b) == IF FLt(b, a) THEN b ELSE a

\* round(x, k) with scale = 10^k: the nearest multiple of 1/scale, ties to even
Round(x, scale) ==
    IF IsNaN(x) THEN NaN
    ELSE LET n == x[1] * scale
             d == x[2]
             q == n \div d
             r == n % d
             m == IF 2 * r > d \/ (2 * r = d /\ q % 2 = 1) THEN q + 1 ELSE q
         IN  Frac(m, scale)

\* log1p(x) in units of ln 2, exact for x = 2^k - 1 (the balances of Dom)
RECURSIVE Log2(_)
Log2(n) == IF n <= 1 THEN 0 ELSE 1 + Log2(n \div 2)

Log1p(x) == IF IsNaN(x) THEN NaN ELSE Num(Log2(x[1] + 1))

-----------------------------------------------------------------------------
(* score_rules.py *)

FEATURES == <<"signups", "calendar_bookings", "demo_request_clicks",
              "pricing_page_views", "page_views", "repeat_session_rate",
              "account_balance_usd", "recent_pages_viewed">>

DEFAULT_WEIGHTS ==
    [signups             |-> Frac(30, 100),
     calendar_bookings   |-> Frac(30, 100),
     demo_request_clicks |-> Frac(15, 100),
     pricing_page_views  |-> Frac(8, 100),
     page_views          |-> Frac(5, 100),
     repeat_session_rate |-> Frac(5, 100),
     account_balance_usd |-> Frac(5, 100),
     recent_pages_viewed |-> Frac(2, 100)]

DEFAULT_THRESHOLDS == [high |-> Num(70), medium |-> Num(40)]

_normalize_count(val, max_val) ==
    IF FGt(max_val, Num(0)) THEN FDiv(val, max_val) ELSE Num(0)

_log_normalize(val, max_val) ==
    IF FGt(max_val, Num(0)) THEN FDiv(Log1p(val), Log1p(max_val)) ELSE Num(0)

\* the smallest non-missing value instead of the largest
RECURSIVE SeriesMin(_)
SeriesMin(col) ==
    IF col = <<>> THEN NaN
    ELSE LET rest == SeriesMin(Tail(col))
             x    == Head(col)
         IN  IF IsNaN(x) THEN rest
             ELSE IF IsNaN(rest) THEN x
             ELSE IF FLt(x, rest) THEN x ELSE rest

\* the value of the first row instead of the largest of the column
SeriesMax_Head(col) == IF col = <<>> THEN NaN ELSE Head(col)

\* Series.max(): the largest non-missing value, NaN when there is none
RECURSIVE SeriesMax(_)
SeriesMax(col) ==
    IF col = <<>> THEN NaN
    ELSE LET rest == SeriesMax(Tail(col))
             x    == Head(col)
         IN  IF IsNaN(x) THEN rest
             ELSE IF IsNaN(rest) THEN x
             ELSE IF FGt(x, rest) THEN x ELSE rest

Fillna0(col) == [i \in DOMAIN col |-> IF IsNaN(col[i]) THEN Num(0) ELSE col[i]]

Column(df, c) == [i \in DOMAIN df |-> df[i][c]]

\* A count column holds integers; they are floats <<n, 1>> once read by the scorer
AsFloat(col) == [i \in DOMAIN col |-> Num(col[i])]

ComputeMaxVals(df) ==
    [page_views          |-> PyMax(Num(1), SeriesMax(AsFloat(Column(df, "page_views")))),
     pricing_page_views  |-> PyMax(Num(1), SeriesMax(AsFloat(Column(df, "pricing_page_views")))),
     demo_request_clicks |-> PyMax(Num(1), SeriesMax(AsFloat(Column(df, "demo_request_clicks")))),
     recent_pages_viewed |-> PyMax(Num(1), SeriesMax(Fillna0(Column(df, "recent_pages_viewed")))),
     account_balance_usd |-> PyMax(Num(1), SeriesMax(Fillna0(Column(df, "account_balance_usd"))))]

RecencyBoost(days) ==
    IF FLe(days, Num(30))
    THEN PyMax(Num(0), FDiv(FSub(Num(30), days), Num(30)))
    ELSE Num(0)

\* row.get(c, default)
Get(row, c, default) == IF c \in DOMAIN row THEN row[c] ELSE default

\* max_vals.get(c, 1)
MaxVal(mv, c) == IF c \in DOMAIN mv THEN mv[c] ELSE Num(1)

\* recency_boost of a row: float(None) raises when the column is absent and
\* the except clause leaves the boost at 0.0
RowRecencyBoost(row) ==
    IF "days_since_last_event" \in DOMAIN row
    THEN RecencyBoost(row.days_since_last_event)
    ELSE Num(0)

\* the count itself instead of its presence
Presence_Count(count) == Num(count)

\* 1.0 if count > 0 else 0.0
Presence(count) == IF count > 0 THEN Num(1) ELSE Num(0)

\* the boosted rate without the cap
BoostedRate_Uncapped(rate, recency_boost) ==
    FAdd(rate, FMul(Frac(25, 100), recency_boost))

\* min(1.0, feats["repeat_session_rate"] + 0.25 * recency_boost)
BoostedRate(rate, recency_boost) ==
    PyMin(Num(1), FAdd(rate, FMul(Frac(25, 100), recency_boost)))

\* feats["repeat_session_rate"] before the boost: a missing rate counts as 0.0
RateOrZero(row) ==
    LET rate == Get(row, "repeat_session_rate", Num(0))
    IN  IF IsNaN(rate) THEN Num(0) ELSE rate

Feats(row, mv) ==
    [signups             |-> Presence(Get(row, "signups", 0)),
     calendar_bookings   |-> Presence(Get(row, "calendar_bookings", 0)),
     demo_request_clicks |-> _normalize_count(Num(Get(row, "demo_request_clicks", 0)),
                                              MaxVal(mv, "demo_request_clicks")),
     pricing_page_views  |-> _normalize_count(Num(Get(row, "pricing_page_views", 0)),
                                              MaxVal(mv, "pricing_page_views")),
     page_views          |-> _normalize_count(Num(Get(row, "page_views", 0)),
                                              MaxVal(mv, "page_views")),
     recent_pages_viewed |-> _normalize_count(Get(row, "recent_pages_viewed", Num(0)),
                                              MaxVal(mv, "recent_pages_viewed")),
     repeat_session_rate |-> BoostedRate(RateOrZero(row), RowRecencyBoost(row)),
     account_balance_usd |-> _log_normalize(Get(row, "account_balance_usd", Num(0)),
                                            MaxVal(mv, "account_balance_usd"))]

\* the keys of a weights dict in insertion order (the dicts of the model
\* list their features in the order of DEFAULT_WEIGHTS)
WeightKeys(weights) == SelectSeq(FEATURES, LAMBDA f : f \in DOMAIN weights)

\* only the features that contributed are kept
Contribs_Positive(feats, weights) ==
    [f \in {g \in DOMAIN weights : FGt(FMul(weights[g], feats[g]), Num(0))} |->
        Round(FMul(FMul(weights[f], feats[f]), Num(100)), 1000)]

\* contribs[feature] = round(weight * feat_val * 100, 3)
Contribs(feats, weights) ==
    [f \in DOMAIN weights |-> Round(FMul(FMul(weights[f], feats[f]), Num(100)), 1000)]

\* raw_score after the first k features of the loop over weights.items()
RECURSIVE RawSum(_, _, _)
RawSum(feats, weights, k) ==
    IF k = 0 THEN Num(0)
    ELSE LET f == WeightKeys(weights)[k]
         IN  FAdd(RawSum(feats, weights, k - 1), FMul(weights[f], feats[f]))

RawScore(feats, weights) == RawSum(feats, weights, Len(WeightKeys(weights)))

Score(raw_score) == Round(FMul(raw_score, Num(100)), 100)

\* strict comparisons against the thresholds
Label_Strict(score, thresholds) ==
    IF FGt(score, thresholds.high) THEN "high"
    ELSE IF FGt(score, thresholds.medium) THEN "medium"
    ELSE "low"

Label(score, thresholds) ==
    IF FGe(score, thresholds.high) THEN "high"
    ELSE IF FGe(score, thresholds.medium) THEN "medium"
    ELSE "low"

Reverse(s) == [i \in DOMAIN s |-> s[Len(s) + 1 - i]]

\* list.sort of CPython for a list of fewer than 64 (key, value) items, the
\* key being the item's second component: count_run finds the run the list
\* starts with, binarysort inserts the other items into it.  Every
\* comparison is key < key, which is False whenever a key is NaN.
RECURSIVE RunEnd(_, _, _)
RunEnd(s, n, descending) ==
    IF n = Len(s) THEN n
    ELSE IF FLt(s[n + 1][2], s[n][2]) = descending THEN RunEnd(s, n + 1, descending)
    ELSE n

CountRun(s) ==
    IF Len(s) <= 1 THEN [n |-> Len(s), descending |-> FALSE]
    ELSE LET descending == FLt(s[2][2], s[1][2])
         IN  [n |-> RunEnd(s, 2, descending), descending |-> descending]

\* the number of items of the sorted prefix s[1..r] the pivot goes after
RECURSIVE Bisect(_, _, _, _)
Bisect(s, pivot, l, r) ==
    IF l >= r THEN l
    ELSE LET p == l + ((r - l) \div 2)
         IN  IF FLt(pivot[2], s[p + 1][2]) THEN Bisect(s, pivot, l, p)
             ELSE Bisect(s, pivot, p + 1, r)

RECURSIVE BinarySort(_, _)
BinarySort(s, start) ==
    IF start >= Len(s) THEN s
    ELSE LET pivot == s[start + 1]
             l == Bisect(s, pivot, 0, start)
         IN  BinarySort(SubSeq(s, 1, l) \o <<pivot>> \o SubSeq(s, l + 1, start)
                            \o SubSeq(s, start + 2, Len(s)),
                        start + 1)

ListSort(s) ==
    LET run == CountRun(s)
        t == IF run.descending
             THEN Reverse(SubSeq(s, 1, run.n)) \o SubSeq(s, run.n + 1, Len(s))
             ELSE s
    IN  BinarySort(t, run.n)

\* sorted(items, key=lambda x: x[1], reverse=True): the list is reversed,
\* sorted and reversed again
SortedReverse(items) == Reverse(ListSort(Reverse(items)))

\* contribs.items(), in the insertion order of contribs
Items(contribs) ==
    LET keys == SelectSeq(FEATURES, LAMBDA f : f \in DOMAIN contribs)
    IN  [k \in DOMAIN keys |-> <<keys[k], contribs[keys[k]]>>]

\* the explanation of a row.  A part f"{feat} (+{pts:.1f} pts)" is the pair
\* of the feature and the points rounded to one decimal; the text is the
\* parts joined by " + ", or "No strong signals" when there is none.
Explanation(contribs) ==
    LET top_contributors == SortedReverse(Items(contribs))
        first3 == SubSeq(top_contributors, 1,
                         IF Len(top_contributors) < 3 THEN Len(top_contributors) ELSE 3)
        kept == SelectSeq(first3, LAMBDA x : FGt(x[2], Num(0)))
        top3 == [k \in DOMAIN kept |->
                    [feature |-> kept[k][1], pts |-> Round(kept[k][2], 10)]]
    IN  [text  |-> IF top3 # <<>> THEN "joined" ELSE "No strong signals",
         parts |-> top3]

score_user_row(row, mv, weights, thresholds) ==
    LET feats == Feats(row, mv)
        contribs == Contribs(feats, weights)
        score == Score(RawScore(feats, weights))
    IN  [score                 |-> score,
         score_label           |-> Label(score, thresholds),
         explanation           |-> Explanation(contribs),
         feature_contributions |-> contribs]

-----------------------------------------------------------------------------
(* find_user_features.py: the scoring embedded in main *)

\* the weights of pricing_page_views and page_views exchanged
find_weights_Swapped ==
    [signups             |-> Frac(30, 100),
     calendar_bookings   |-> Frac(30, 100),
     demo_request_clicks |-> Frac(15, 100),
     pricing_page_views  |-> Frac(5, 100),
     page_views          |-> Frac(8, 100),
     repeat_session_rate |-> Frac(5, 100),
     account_balance_usd |-> Frac(5, 100),
     recent_pages_viewed |-> Frac(2, 100)]

\* the weights of main
find_weights ==
    [signups             |-> Frac(30, 100),
     calendar_bookings   |-> Frac(30, 100),
     demo_request_clicks |-> Frac(15, 100),
     pricing_page_views  |-> Frac(8, 100),
     page_views          |-> Frac(5, 100),
     repeat_session_rate |-> Frac(5, 100),
     account_balance_usd |-> Frac(5, 100),
     recent_pages_viewed |-> Frac(2, 100)]

find_normalize_count(val, max_val) ==
    IF FGt(max_val, Num(0)) THEN FDiv(val, max_val) ELSE Num(0)

find_log_normalize(val, max_val) ==
    IF FGt(max_val, Num(0)) THEN FDiv(Log1p(val), Log1p(max_val)) ELSE Num(0)

\* score_row(r), a closure over the weights and the max_vals of main
score_row(r, mv) ==
    LET rate == Get(r, "repeat_session_rate", Num(0))
        recency ==
            IF "days_since_last_event" \in DOMAIN r
            THEN (IF FLe(r.days_since_last_event, Num(30))
                  THEN PyMax(Num(0), FDiv(FSub(Num(30), r.days_since_last_event), Num(30)))
                  ELSE Num(0))
            ELSE Num(0)
        feats ==
            [signups |-> IF Get(r, "signups", 0) > 0 THEN Num(1) ELSE Num(0),
             calendar_bookings |->
                 IF Get(r, "calendar_bookings", 0) > 0 THEN Num(1) ELSE Num(0),
             demo_request_clicks |->
                 IF "demo_request_clicks" \in DOMAIN mv
                 THEN find_normalize_count(Num(Get(r, "demo_request_clicks", 0)),
                                           mv.demo_request_clicks)
                 ELSE Num(0),
             pricing_page_views |->
                 IF "pricing_page_views" \in DOMAIN mv
                 THEN find_normalize_count(Num(Get(r, "pricing_page_views", 0)),
                                           mv.pricing_page_views)
                 ELSE Num(0),
             page_views |->
                 IF "page_views" \in DOMAIN mv
                 THEN find_normalize_count(Num(Get(r, "page_views", 0)), mv.page_views)
                 ELSE Num(0),
             repeat_session_rate |->
                 PyMin(Num(1), FAdd(IF IsNaN(rate) THEN Num(0) ELSE rate,
                                    FMul(Frac(25, 100), recency))),
             account_balance_usd |->
                 IF "account_balance_usd" \in DOMAIN mv
                 THEN find_log_normalize(Get(r, "account_balance_usd", Num(0)),
                                         mv.account_balance_usd)
                 ELSE Num(0),
             recent_pages_viewed |->
                 IF "recent_pages_viewed" \in DOMAIN mv
                 THEN find_normalize_count(Get(r, "recent_pages_viewed", Num(0)),
                                           mv.recent_pages_viewed)
                 ELSE Num(0)]
        contribs ==
            [f \in DOMAIN find_weights |->
                Round(FMul(FMul(find_weights[f], feats[f]), Num(100)), 1000)]
        raw == RawSum(feats, find_weights, Len(WeightKeys(find_weights)))
        score == Round(FMul(raw, Num(100)), 100)
        label == IF FGe(score, Num(70)) THEN "high"
                 ELSE IF FGe(score, Num(40)) THEN "medium"
                 ELSE "low"
        top == SortedReverse(Items(contribs))
        first3 == SubSeq(top, 1, IF Len(top) < 3 THEN Len(top) ELSE 3)
        kept == SelectSeq(first3, LAMBDA x : FGt(x[2], Num(0)))
        top3 == [k \in DOMAIN kept |->
                    [feature |-> kept[k][1], pts |-> Round(kept[k][2], 10)]]
    IN  [score                 |-> score,
         score_label           |-> label,
         explanation           |->
             [text  |-> IF top3 # <<>> THEN "joined" ELSE "No strong signals",
              parts |-> top3],
         feature_contributions |-> contribs]

-----------------------------------------------------------------------------
(* data/generate_users.py *)

NumUsers == 2               \* NUM_USERS, scaled down
MIN_SESSIONS_PER_USER == 1
MAX_SESSIONS_PER_USER == 5
MIN_EVENTS_PER_SESSION == 1
MAX_EVENTS_PER_SESSION == 8
MaxRows == 4                \* cap on the rows of raw_events.csv
Now0 == 2                   \* the clock, in days, when the commands start

\* the header of raw_events.csv: the keys of the rows main writes
RAW_COLUMNS ==
    {"event_id", "user_id", "username", "session_id", "timestamp", "event_type",
     "location_city", "device", "is_repeat_session", "session_number",
     "account_balance_usd", "recent_pages_viewed", "recent_pricing_views",
     "gender", "time_on_page_sec", "scroll_depth_pct", "bounce_flag", "spam_flag"}

\* f"s{random.randint(1000, 9999)}" for session s of a user: the model fixes
\* the draw of a user's first session and lets the later ones repeat it or
\* fall below it
SessionIds(s) == IF s = 0 THEN {1001} ELSE {1000, 1001}

DEVICES == <<"desktop", "mobile">>

EVENT_TYPES == <<"page_view", "pricing_page_view", "search", "chat_message",
                 "doc_download", "demo_request_click", "signup",
                 "calendar_booking">>

\* the event types the generator draws in this model
GenTypes == {"page_view", "signup", "calendar_booking"}

\* sample_user_profile(i): the account snapshot drawn for user i; the model
\* fixes the draw, a balance under 5 for the odd users and above for the even
sample_user_profile(i) ==
    IF i % 2 = 1
    THEN [account_balance_usd |-> Num(1), recent_pages_viewed |-> Num(0)]
    ELSE [account_balance_usd |-> Num(7), recent_pages_viewed |-> Num(2)]

BoolInt(b) == IF b THEN 1 ELSE 0

\* rand_ts(now): a time within the DAYS_BACK days before the generator's
\* clock; the model fixes the draw by the event counter, today or a day back
rand_ts(event_counter) == Num(Now0 - (event_counter % 2))

\* the rows of one session: the body of the loop over range(sessions)
SessionRows(u, s, prof, sid, n_events, tys, lowIntent, first_id) ==
    LET bounce_flag == BoolInt(n_events = 1)
        spam_flag   == BoolInt(bounce_flag = 1 /\ lowIntent
                               /\ FLt(prof.account_balance_usd, Num(5)))
    IN  [k \in 1..n_events |->
            [event_id            |-> first_id + k - 1,
             user_id             |-> u,
             session_id          |-> sid,
             timestamp           |-> rand_ts(first_id + k - 1),
             event_type          |-> tys[k],
             device              |-> DEVICES[1 + ((first_id + k - 1) % 2)],
             is_repeat_session   |-> BoolInt(s > 0),
             session_number      |-> s + 1,
             account_balance_usd |-> prof.account_balance_usd,
             recent_pages_viewed |-> prof.recent_pages_viewed,
             bounce_flag         |-> bounce_flag,
             spam_flag           |-> spam_flag]]

-----------------------------------------------------------------------------
(* featurize.py *)

RECURSIVE SortedSeq(_)
SortedSeq(S) ==
    IF S = {} THEN <<>>
    ELSE LET m == CHOOSE x \in S : \A y \in S : x <= y
         IN  <<m>> \o SortedSeq(S \ {m})

RECURSIVE SumSeq(_)
SumSeq(s) == IF s = <<>> THEN 0 ELSE Head(s) + SumSeq(Tail(s))

RECURSIVE MaxSeq(_)
MaxSeq(s) ==
    IF Len(s) = 1 THEN Head(s)
    ELSE LET r == MaxSeq(Tail(s)) IN IF Head(s) > r THEN Head(s) ELSE r

\* a per-event sum in place of the groupby aggregation "max"
GroupSum(col) == SumSeq(col)

\* the groupby aggregation "max" of a 0/1 or integer column
GroupMax(col) == MaxSeq(col)

\* the groupby aggregation "first": the first non-missing value of the group
RECURSIVE First(_)
First(col) ==
    IF col = <<>> THEN NaN
    ELSE IF IsNaN(Head(col)) THEN First(Tail(col)) ELSE Head(col)

\* the groups of df.groupby(["user_id", "session_id"]), sorted by key
GroupKeys(df) == {<<df[i].user_id, df[i].session_id>> : i \in DOMAIN df}

Group(df, u, sid) == SelectSeq(df, LAMBDA e : e.user_id = u /\ e.session_id = sid)

\* the values of a device column in sorted order
DeviceRank(d) == CHOOSE k \in DOMAIN DEVICES : DEVICES[k] = d

\* the number of cells of col that hold v
CountOf(col, v) == Cardinality({i \in DOMAIN col : col[i] = v})

\* the non-missing values of col with the highest count: s.mode()
Modes(col) ==
    LET vals == {col[i] : i \in DOMAIN col} \ {""}
    IN  {v \in vals : \A w \in vals : CountOf(col, v) >= CountOf(col, w)}

\* _mode_or_first(s) for a column of devices, "" being a missing cell and
\* None: s.mode() lists the most frequent values in sorted order
_mode_or_first(col) ==
    LET m == Modes(col)
    IN  IF m # {} THEN CHOOSE v \in m : \A w \in m : DeviceRank(v) <= DeviceRank(w)
        ELSE IF Len(col) > 0 THEN col[1]
        ELSE ""

SessionAgg(df, u, sid) ==
    LET g == Group(df, u, sid)
    IN  [user_id             |-> u,
         session_id          |-> sid,
         primary_device      |-> _mode_or_first(Column(g, "device")),
         session_last_ts     |-> SeriesMax(Column(g, "timestamp")),
         account_balance_usd |-> First(Column(g, "account_balance_usd")),
         recent_pages_viewed |-> First(Column(g, "recent_pages_viewed")),
         is_repeat_session   |-> GroupMax(Column(g, "is_repeat_session")),
         session_number      |-> GroupMax(Column(g, "session_number")),
         bounce_flag         |-> GroupMax(Column(g, "bounce_flag")),
         spam_flag           |-> GroupMax(Column(g, "spam_flag")),
         session_events      |-> Len(g)]

UserIdsOf(df) == {df[i].user_id : i \in DOMAIN df}

SessionIdsOf(df, u) == {k[2] : k \in {x \in GroupKeys(df) : x[1] = u}}

RECURSIVE Concat(_)
Concat(ss) == IF ss = <<>> THEN <<>> ELSE Head(ss) \o Concat(Tail(ss))

SessionDf(df) ==
    LET us == SortedSeq(UserIdsOf(df))
    IN  Concat([i \in DOMAIN us |->
            LET sids == SortedSeq(SessionIdsOf(df, us[i]))
            IN  [j \in DOMAIN sids |-> SessionAgg(df, us[i], sids[j])]])

\* every event of the user is counted, whatever its type
EventCount_AnyType(df, u, ev) == Len(SelectSeq(df, LAMBDA e : e.user_id = u))

\* (df["event_type"] == ev).astype(int), summed per user
EventCount(df, u, ev) ==
    Len(SelectSeq(df, LAMBDA e : e.user_id = u /\ e.event_type = ev))

\* only the events with a parseable timestamp are counted
TotalEvents_Parsed(df, u) ==
    Len(SelectSeq(df, LAMBDA e : e.user_id = u /\ ~IsNaN(e.timestamp)))

\* df.groupby("user_id")["event_id"].count()
TotalEvents(df, u) == Len(SelectSeq(df, LAMBDA e : e.user_id = u))

\* Series / Series followed by fillna(0): 0/0 is NaN, x/0 is inf
Inf == <<1, 0>>

\* the division without the fillna(0)
Rate_NoFillna(num, den) ==
    IF den = 0 THEN (IF num = 0 THEN NaN ELSE Inf) ELSE Frac(num, den)

Rate(num, den) ==
    LET q == IF den = 0 THEN (IF num = 0 THEN NaN ELSE Inf) ELSE Frac(num, den)
    IN  IF q = NaN THEN Num(0) ELSE q

\* either action alone counts as a conversion
Converted_Either(signups, calendar_bookings) ==
    BoolInt(signups > 0 \/ calendar_bookings > 0)

Converted(signups, calendar_bookings) ==
    BoolInt(signups > 0 /\ calendar_bookings > 0)

\* a fixed day in place of now - last_event_ts
DaysSince_Frozen(t, last_event_ts) == FSub(Num(Now0), last_event_ts)

\* (now - last_event_ts).dt.total_seconds() / (3600 * 24)
DaysSince(t, last_event_ts) == FSub(Num(t), last_event_ts)

UserAgg(df, sdf, u, t) ==
    LET ss == SelectSeq(sdf, LAMBDA r : r.user_id = u)
        total_sessions == Cardinality({ss[i].session_id : i \in DOMAIN ss})
        repeat_sessions == SumSeq(Column(ss, "is_repeat_session"))
        bounces == SumSeq(Column(ss, "bounce_flag"))
        spam_sessions == SumSeq(Column(ss, "spam_flag"))
        signups == EventCount(df, u, "signup")
        calendar_bookings == EventCount(df, u, "calendar_booking")
        last_event_ts == SeriesMax(Column(ss, "session_last_ts"))
    IN  [user_id             |-> u,
         primary_device      |-> _mode_or_first(Column(ss, "primary_device")),
         last_event_ts       |-> last_event_ts,
         days_since_last_event |-> DaysSince(t, last_event_ts),
         account_balance_usd |-> First(Column(ss, "account_balance_usd")),
         recent_pages_viewed |-> First(Column(ss, "recent_pages_viewed")),
         total_sessions      |-> total_sessions,
         repeat_sessions     |-> repeat_sessions,
         bounces             |-> bounces,
         spam_sessions       |-> spam_sessions,
         page_views          |-> EventCount(df, u, "page_view"),
         pricing_page_views  |-> EventCount(df, u, "pricing_page_view"),
         search_events       |-> EventCount(df, u, "search"),
         chat_messages       |-> EventCount(df, u, "chat_message"),
         doc_downloads       |-> EventCount(df, u, "doc_download"),
         demo_request_clicks |-> EventCount(df, u, "demo_request_click"),
         signups             |-> signups,
         calendar_bookings   |-> calendar_bookings,
         total_events        |-> TotalEvents(df, u),
         repeat_session_rate |-> Rate(repeat_sessions, total_sessions),
         bounce_rate         |-> Rate(bounces, total_sessions),
         spam_rate           |-> Rate(spam_sessions, total_sessions),
         converted           |-> Converted(signups, calendar_bookings)]

\* the user-level groupby keyed like the session-level one: a row per session
build_user_features_PerSession(df, t) ==
    LET sdf == SessionDf(df)
    IN  [i \in DOMAIN sdf |-> UserAgg(df, sdf, sdf[i].user_id, t)]

\* build_user_features on the events df, datetime.now returning t
build_user_features(df, t) ==
    LET sdf == SessionDf(df)
        us  == SortedSeq(UserIdsOf(sdf))
    IN  [i \in DOMAIN us |-> UserAgg(df, sdf, us[i], t)]

-----------------------------------------------------------------------------
(* main.py run_rank *)

Perms(n) == {p \in [1..n -> 1..n] : \A i, j \in 1..n : i # j => p[i] # p[j]}

\* ascending=True
SortValuesAsc(df) ==
    {p \in Perms(Len(df)) :
        \A i, j \in 1..Len(df) : i < j =>
            LET a == df[p[i]].score
                b == df[p[j]].score
            IN  /\ ~FGt(a, b)
                /\ IsNaN(a) => IsNaN(b) /\ p[i] < p[j]}

\* The row orders sort_values("score", ascending=False) can return.  Rows with
\* a missing score go last (na_position="last"), in input order.  The default
\* kind="quicksort" is not a stable sort, so rows of equal score may come out
\* in any order.
SortValuesDesc(df) ==
    {p \in Perms(Len(df)) :
        \A i, j \in 1..Len(df) : i < j =>
            LET a == df[p[i]].score
                b == df[p[j]].score
            IN  /\ ~FLt(a, b)
                /\ IsNaN(a) => IsNaN(b) /\ p[i] < p[j]}

\* DataFrame.head(n) for n >= 0
HeadRows(df, n) == SubSeq(df, 1, IF n < Len(df) THEN n ELSE Len(df))

-----------------------------------------------------------------------------
(* Inputs *)

MaxBatch == 2      \* rows of the feature table given to score_users_rules
MaxRanked == 3     \* rows of the scored table given to run_rank

Dom ==
    [signups               |-> {0, 1, 2},
     calendar_bookings     |-> {0, 1, 2},
     demo_request_clicks   |-> {0, 1, 2},
     pricing_page_views    |-> {0, 1, 2},
     page_views            |-> {0, 1, 2},
     recent_pages_viewed   |-> {NaN, Num(0), Num(1), Num(2)},
     account_balance_usd   |-> {NaN, Num(0), Num(1), Num(3)},
     repeat_session_rate   |-> {NaN, Num(0), Frac(1, 2), Num(1)},
     days_since_last_event |-> {NaN, Num(-30), Num(0), Num(15), Num(30), Num(45)}]

\* a user without any signal, a user whose only signal is the browsing
\* history, a user who only converted, a user with every feature at the top
\* of its domain
BaseRows ==
    {[signups |-> 0, calendar_bookings |-> 0, demo_request_clicks |-> 0,
      pricing_page_views |-> 0, page_views |-> 0, recent_pages_viewed |-> Num(0),
      account_balance_usd |-> Num(0), repeat_session_rate |-> Num(0),
      days_since_last_event |-> Num(45)],
     [signups |-> 0, calendar_bookings |-> 0, demo_request_clicks |-> 0,
      pricing_page_views |-> 0, page_views |-> 0, recent_pages_viewed |-> Num(2),
      account_balance_usd |-> Num(0), repeat_session_rate |-> Num(0),
      days_since_last_event |-> Num(45)],
     [signups |-> 1, calendar_bookings |-> 1, demo_request_clicks |-> 0,
      pricing_page_views |-> 0, page_views |-> 0, recent_pages_viewed |-> Num(0),
      account_balance_usd |-> Num(0), repeat_session_rate |-> Num(0),
      days_since_last_event |-> Num(45)],
     [signups |-> 1, calendar_bookings |-> 1, demo_request_clicks |-> 2,
      pricing_page_views |-> 2, page_views |-> 2, recent_pages_viewed |-> Num(2),
      account_balance_usd |-> Num(3), repeat_session_rate |-> Num(1),
      days_since_last_event |-> Num(0)]}

\* the rows that differ from a base row in at most one cell, with the
\* converted column as build_user_features derives it
Variants(b) == UNION {{[b EXCEPT ![f] = v] : v \in Dom[f]} : f \in DOMAIN Dom}

FeatureRows ==
    {r @@ [converted |-> Converted(r.signups, r.calendar_bookings)] :
        r \in UNION {Variants(b) : b \in BaseRows}}

BaseFeatureRows == {r \in FeatureRows : \E b \in BaseRows : r = b @@ r}

\* the user without any signal and the user with every feature at the top
ExtremeFeatureRows ==
    {r \in BaseFeatureRows :
        (r.signups > 0) = (r.page_views > 0) /\ r.recent_pages_viewed = Num(r.page_views)}

\* the rows a feature table of n rows may have at each position; the rows
\* after the second are the two extreme base rows
RowChoices(n) == [i \in 1..n |-> IF i > 2 THEN ExtremeFeatureRows ELSE FeatureRows]

RECURSIVE TablesOf(_)
TablesOf(choices) ==
    IF choices = <<>> THEN {<<>>}
    ELSE {Append(t, [user_id |-> Len(choices)] @@ r) :
             t \in TablesOf(SubSeq(choices, 1, Len(choices) - 1)),
             r \in choices[Len(choices)]}

\* the feature tables of n rows
FeatureTables(n) == TablesOf(RowChoices(n))

\* the columns of the tables of FeatureTables
FEATURE_COLUMNS == DOMAIN Dom \cup {"user_id", "converted"}

\* the weights a caller passes to score_users_rules: none, one weighted
\* feature, two weighted features
CallerWeights ==
    {<<>>,
     [signups |-> Num(1)],
     [page_views |-> Frac(1, 2), account_balance_usd |-> Frac(1, 2)]}

\* the columns a feature table given to score_users_rules may lack
OptionalColumns == {FEATURES[k] : k \in DOMAIN FEATURES} \cup {"days_since_last_event"}

\* the tables of n base rows
BaseTables(n) == TablesOf([i \in 1..n |-> BaseFeatureRows])

MaxEvents == 3     \* rows of the raw events file given to run_featurize
MaxElapsed == 1    \* days between two runs of run_featurize
MaxUsersArg == 9   \* --n-users of main.py
MaxSeed == 4       \* --seed of main.py
MaxNow == Now0 + MaxElapsed

\* the (user_id, session_id) of the rows of a drawn events file, and the
\* timestamps of row id: unparseable (NaT), or a day back for the odd rows
\* and today for the even ones
EventKeys == {<<1, 1000>>, <<1, 1001>>, <<2, 1000>>}

Timestamps(id) == {NaN, Num(Now0 - (id % 2))}

EventRow(id, key, device, ts) ==
    [event_id            |-> id,
     user_id             |-> key[1],
     session_id          |-> key[2],
     timestamp           |-> ts,
     event_type          |-> "page_view",
     device              |-> device,
     is_repeat_session   |-> 0,
     session_number      |-> 1,
     account_balance_usd |-> Num(1),
     recent_pages_viewed |-> Num(0),
     bounce_flag         |-> 0,
     spam_flag           |-> 0]

RECURSIVE EventFilesOf(_)
EventFilesOf(n) ==
    IF n = 0 THEN {<<>>}
    ELSE {Append(f, EventRow(n, key, DEVICES[d], ts)) :
             f \in EventFilesOf(n - 1), key \in EventKeys,
             d \in DOMAIN DEVICES, ts \in Timestamps(n)}

\* the file without the column c
DropColumn(df, c) ==
    [i \in DOMAIN df |-> [f \in DOMAIN df[i] \ {c} |-> df[i][f]]]

\* the event type and the account balance an event of a snapshot file
\* carries: an enumerated type or one that is not ("logout"), a balance that
\* is the user's usual one, another one, or missing
SnapChoices ==
    {<<ev, Num(1)>> : ev \in {"page_view", "signup", "logout"}}
        \cup {<<"page_view", b>> : b \in {NaN, Num(3)}}

\* the events files of n rows whose events differ in type and in snapshot
RECURSIVE SnapFilesOf(_)
SnapFilesOf(n) ==
    IF n = 0 THEN {<<>>}
    ELSE {Append(f, [EventRow(n, key, "desktop", Num(Now0))
                        EXCEPT !.event_type = c[1], !.account_balance_usd = c[2]]) :
             f \in SnapFilesOf(n - 1), key \in EventKeys, c \in SnapChoices}

RankScores == {NaN, Num(10), Num(70)}

\* the scored tables of n rows
ScoredTables(n) ==
    {[i \in 1..n |-> [user_id |-> i, score |-> t[i]]] : t \in [1..n -> RankScores]}

-----------------------------------------------------------------------------
(* Actions *)

\* the parsed command line of main.py --mode mode, with the defaults of
\* --n-users and --seed
ArgsOf(mode) == [mode |-> mode, n_users |-> 100, seed |-> 42]

Idle == [user |-> 0, session |-> 0]

\* the rows the file can still take, one row kept for each user yet to come
Room == MaxRows - Len(events) - MIN_EVENTS_PER_SESSION * (NumUsers - gen.user)

\* generate_users.main: one pass of the loop over range(sessions); `last`
\* says whether this was the last of the sessions drawn for the user
GenSession(sid, n_events, tys, lowIntent, last) ==
    LET u == gen.user
        s == gen.session
        p == sample_user_profile(u)
        rows == SessionRows(u, s, p, sid, n_events, tys, lowIntent, Len(events) + 1)
        room == Room - n_events
    IN  /\ pc = "generate"
        /\ u <= NumUsers
        /\ room >= 0
        /\ last => s + 1 >= MIN_SESSIONS_PER_USER
        /\ ~last => s + 1 < MAX_SESSIONS_PER_USER /\ room >= MIN_EVENTS_PER_SESSION
        /\ events' = events \o rows
        /\ gen' = IF last THEN [user |-> u + 1, session |-> 0]
                   ELSE [user |-> u, session |-> s + 1]
        /\ pc' = IF last /\ u = NumUsers THEN "featurize" ELSE "generate"
        /\ UNCHANGED <<user, user_df, max_vals, results, result_df, scored_df,
                       args_n, top_users, columns, arg_weights, error, written, now, args>>

Generate ==
    \E sid \in SessionIds(gen.session),
       n_events \in MIN_EVENTS_PER_SESSION ..
                    (IF Room < MAX_EVENTS_PER_SESSION THEN Room ELSE MAX_EVENTS_PER_SESSION),
       lowIntent \in BOOLEAN, last \in BOOLEAN :
        \E tys \in [1..n_events -> GenTypes] :
            GenSession(sid, n_events, tys, lowIntent, last)

\* the columns of the raw events build_user_features reads
REQUIRED_COLUMNS ==
    {"timestamp", "scroll_depth_pct", "time_on_page_sec", "user_id", "session_id",
     "username", "location_city", "gender", "account_balance_usd",
     "recent_pages_viewed", "recent_pricing_views", "is_repeat_session",
     "session_number", "bounce_flag", "spam_flag", "device", "event_id",
     "event_type"}

\* main.run_featurize, datetime.now returning t: build_user_features, then
\* write_user_features; df[column] and the groupby raise KeyError for a
\* column the events file does not have, and nothing catches it
run_featurize(t) ==
    LET ok == REQUIRED_COLUMNS \subseteq columns
    IN  /\ user' = IF ok THEN build_user_features(events, t) ELSE user
        /\ now' = IF ok THEN t ELSE now
        /\ written' = IF ok THEN written \cup {"user_features.csv"} ELSE written
        /\ error' = IF ok THEN "" ELSE "KeyError"
        /\ pc' = IF ok THEN "featurized" ELSE "failed"
        /\ UNCHANGED <<events, gen, user_df, max_vals, results, result_df,
                       scored_df, args_n, top_users, columns, arg_weights, args>>

\* python main.py --mode featurize
Featurize ==
    /\ pc = "featurize"
    /\ run_featurize(now)

\* the same command run again on the same events file, at the same time or
\* later
Refeaturize ==
    /\ pc = "featurized"
    /\ \E t \in now..MaxNow : run_featurize(t)

\* the columns whose population maximum score_users_rules computes
MAX_COLUMNS == {"page_views", "pricing_page_views", "demo_request_clicks",
                "recent_pages_viewed", "account_balance_usd"}

\* the columns the model holds as floats; the others hold integers
FLOAT_COLUMNS == {"recent_pages_viewed", "account_balance_usd",
                  "repeat_session_rate", "days_since_last_event"}

\* user_df[feat] = 0 for every feat of feats that is not a column of df
EnsureColumns(df, feats) ==
    [i \in DOMAIN df |->
        [c \in DOMAIN df[i] \cup feats |->
            IF c \in DOMAIN df[i] THEN df[i][c]
            ELSE IF c \in FLOAT_COLUMNS THEN Num(0) ELSE 0]]

\* weights or DEFAULT_WEIGHTS
WeightsOrDefault(w) == IF DOMAIN w = {} THEN DEFAULT_WEIGHTS ELSE w

\* score_users_rules, lines 159-175: the defaults, the required features and
\* the population maxima; user_df[column] raises KeyError for a column the
\* table does not have
ScoreMaxVals ==
    LET w    == WeightsOrDefault(arg_weights)
        cols == columns \cup DOMAIN w
        df   == EnsureColumns(user_df, DOMAIN w)
        ok   == MAX_COLUMNS \subseteq cols
    IN  /\ pc = "score_rules"
        /\ arg_weights' = w
        /\ columns' = cols
        /\ user_df' = df
        /\ max_vals' = IF ok THEN ComputeMaxVals(df) ELSE max_vals
        /\ error' = IF ok THEN error ELSE "KeyError"
        /\ pc' = IF ok THEN "score_rows" ELSE "failed"
        /\ results' = <<>>
        /\ UNCHANGED <<events, gen, user, result_df, scored_df, args_n, top_users,
                       written, now, args>>

\* score_users_rules, lines 178-186: one pass of the loop over iterrows()
ScoreRow ==
    /\ pc = "score_rows"
    /\ Len(results) < Len(user_df)
    /\ results' = Append(results,
                         score_user_row(user_df[Len(results) + 1], max_vals,
                                        arg_weights, DEFAULT_THRESHOLDS))
    /\ UNCHANGED <<pc, events, gen, user, user_df, max_vals, result_df, scored_df,
                   args_n, top_users, columns, arg_weights, error, written, now, args>>

\* score_users_rules, lines 188-193: the returned copy with the added columns
ScoreReturn ==
    /\ pc = "score_rows"
    /\ Len(results) = Len(user_df)
    /\ result_df' = [i \in DOMAIN user_df |-> user_df[i] @@ results[i]]
    /\ pc' = "scored"
    /\ UNCHANGED <<events, gen, user, user_df, max_vals, results, scored_df,
                   args_n, top_users, columns, arg_weights, error, written, now, args>>

\* main.run_rank with args.n = n
RunRank ==
    /\ pc = "rank"
    /\ \E n \in 0..(Len(scored_df) + 1) :
         \E p \in SortValuesDesc(scored_df) :
            /\ args_n' = n
            /\ top_users' = HeadRows([i \in DOMAIN scored_df |-> scored_df[p[i]]], n)
    /\ written' = written \cup {"top_users.csv"}
    /\ pc' = "ranked"
    /\ UNCHANGED <<events, gen, user, user_df, max_vals, results, result_df, scored_df,
                   columns, arg_weights, error, now, args>>

\* the names data/generate_users.py defines at module level
GENERATE_USERS_NAMES ==
    {"csv", "random", "dataclass", "datetime", "timedelta", "Path", "NUM_USERS",
     "MIN_SESSIONS_PER_USER", "MAX_SESSIONS_PER_USER", "MIN_EVENTS_PER_SESSION",
     "MAX_EVENTS_PER_SESSION", "DAYS_BACK", "OUTPUT_PATH", "EVENT_TYPES", "CITIES",
     "DEVICES", "GENDERS", "BASE_USERNAMES", "UserProfile", "rand_ts",
     "sample_user_profile", "choose_event_type", "main"}

\* the data files of the pipeline
DATA_FILES == {"raw_events.csv", "user_features.csv", "user_scores.csv", "top_users.csv"}

\* the positions of run_pipeline and of the handlers it calls
PIPELINE_STAGES ==
    <<"pipeline", "run_generate", "run_featurize", "run_score_rules", "run_rank",
      "run_explain", "complete">>

\* the position that follows stage in run_pipeline
StageAfter(stage) ==
    PIPELINE_STAGES[1 + CHOOSE k \in DOMAIN PIPELINE_STAGES : PIPELINE_STAGES[k] = stage]

\* score_users_rules(user_df) as run_score_rules calls it
ScoredTable(df) ==
    [i \in DOMAIN df |->
        df[i] @@ score_user_row(df[i], ComputeMaxVals(df),
                                DEFAULT_WEIGHTS, DEFAULT_THRESHOLDS)]

\* main.py --mode pipeline and --mode generate: one step of run_pipeline,
\* which calls the handlers in turn; an exception a handler raises ends the
\* run.  run_generate imports the name generate_users from
\* data/generate_users.py.
PipelineStep ==
    /\ pc \in {PIPELINE_STAGES[k] : k \in 1..6}
    /\ IF pc = "pipeline"
       THEN /\ pc' = "run_generate"
            /\ UNCHANGED <<user, scored_df, top_users, error, written>>
       ELSE IF pc = "run_generate"
       THEN IF "generate_users" \in GENERATE_USERS_NAMES
            THEN /\ written' = written \cup {"raw_events.csv"}
                 /\ pc' = IF args.mode = "pipeline" THEN StageAfter(pc) ELSE "done"
                 /\ UNCHANGED <<user, scored_df, top_users, error>>
            ELSE /\ error' = "ImportError"
                 /\ pc' = "failed"
                 /\ UNCHANGED <<user, scored_df, top_users, written>>
       ELSE IF pc = "run_featurize"
       THEN /\ user' = build_user_features(events, now)
            /\ written' = written \cup {"user_features.csv"}
            /\ pc' = StageAfter(pc)
            /\ UNCHANGED <<scored_df, top_users, error>>
       ELSE IF pc = "run_score_rules"
       THEN IF user = <<>>
            THEN /\ error' = "ZeroDivisionError"
                 /\ pc' = "failed"
                 /\ written' = written \cup {"user_scores.csv"}
                 /\ UNCHANGED <<user, scored_df, top_users>>
            ELSE /\ scored_df' = ScoredTable(user)
                 /\ written' = written \cup {"user_scores.csv"}
                 /\ pc' = StageAfter(pc)
                 /\ UNCHANGED <<user, top_users, error>>
       ELSE IF pc = "run_rank"
       THEN /\ \E p \in SortValuesDesc(scored_df) :
                  top_users' = HeadRows([i \in DOMAIN scored_df |-> scored_df[p[i]]], 20)
            /\ written' = written \cup {"top_users.csv"}
            /\ pc' = StageAfter(pc)
            /\ UNCHANGED <<user, scored_df, error>>
       ELSE /\ pc' = StageAfter(pc)
            /\ UNCHANGED <<user, scored_df, top_users, error, written>>
    /\ UNCHANGED <<events, gen, user_df, max_vals, results, result_df, args_n,
                   columns, arg_weights, now, args>>

-----------------------------------------------------------------------------
(* Specifications *)

\* python data/generate_users.py, then featurize
InitAgg ==
    /\ pc = "generate"
    /\ events = <<>>
    /\ gen = [user |-> 1, session |-> 0]
    /\ user = <<>>
    /\ user_df = <<>>
    /\ max_vals = <<>>
    /\ results = <<>>
    /\ result_df = <<>>
    /\ scored_df = <<>>
    /\ args_n = 0
    /\ args = ArgsOf("featurize")
    /\ top_users = <<>>
    /\ columns = RAW_COLUMNS
    /\ arg_weights = <<>>
    /\ error = ""
    /\ written = {}
    /\ now = Now0

NextAgg == Generate \/ Featurize

SpecAgg == InitAgg /\ [][NextAgg]_vars

\* main.py --mode featurize on an events file read from --input, run once
\* or twice; the files of at most one row also come without one column
InitFeat ==
    /\ pc = "featurize"
    /\ \/ /\ columns = RAW_COLUMNS
          /\ \E n \in 0..MaxEvents : events \in EventFilesOf(n)
       \/ \E c \in RAW_COLUMNS :
             /\ columns = RAW_COLUMNS \ {c}
             /\ events \in {DropColumn(f, c) : f \in EventFilesOf(0) \cup EventFilesOf(1)}
    /\ gen = Idle
    /\ user = <<>>
    /\ user_df = <<>>
    /\ max_vals = <<>>
    /\ results = <<>>
    /\ result_df = <<>>
    /\ scored_df = <<>>
    /\ args_n = 0
    /\ args = ArgsOf("featurize")
    /\ top_users = <<>>
    /\ arg_weights = <<>>
    /\ error = ""
    /\ written = {}
    /\ now = Now0

NextFeat == Featurize \/ Refeaturize

SpecFeat == InitFeat /\ [][NextFeat]_vars

\* main.py --mode score-rules on a feature table read from --input
InitScore ==
    /\ pc = "score_rules"
    /\ \E n \in 0..MaxBatch : user_df \in FeatureTables(n)
    /\ events = <<>>
    /\ gen = Idle
    /\ user = <<>>
    /\ max_vals = <<>>
    /\ results = <<>>
    /\ result_df = <<>>
    /\ scored_df = <<>>
    /\ args_n = 0
    /\ args = ArgsOf("score-rules")
    /\ top_users = <<>>
    /\ columns = FEATURE_COLUMNS
    /\ arg_weights = <<>>
    /\ error = ""
    /\ written = {}
    /\ now = Now0

NextScore == ScoreMaxVals \/ ScoreRow \/ ScoreReturn

SpecScore == InitScore /\ [][NextScore]_vars

\* score_users_rules called with weights of the caller on a feature table
\* that has every column or lacks one
InitScoreAny ==
    /\ pc = "score_rules"
    /\ arg_weights \in CallerWeights
    /\ \E n \in 0..MaxBatch :
          \/ user_df \in BaseTables(n) /\ columns = FEATURE_COLUMNS
          \/ \E c \in OptionalColumns :
                /\ columns = FEATURE_COLUMNS \ {c}
                /\ user_df \in {DropColumn(t, c) : t \in BaseTables(n)}
    /\ events = <<>>
    /\ gen = Idle
    /\ user = <<>>
    /\ max_vals = <<>>
    /\ results = <<>>
    /\ result_df = <<>>
    /\ scored_df = <<>>
    /\ args_n = 0
    /\ args = ArgsOf("score-rules")
    /\ top_users = <<>>
    /\ error = ""
    /\ written = {}
    /\ now = Now0

SpecScoreAny == InitScoreAny /\ [][NextScore]_vars

\* main.py --mode featurize on an events file whose events differ in type
\* and in snapshot
InitSnap ==
    /\ pc = "featurize"
    /\ columns = RAW_COLUMNS
    /\ \E n \in 0..MaxEvents : events \in SnapFilesOf(n)
    /\ gen = Idle
    /\ user = <<>>
    /\ user_df = <<>>
    /\ max_vals = <<>>
    /\ results = <<>>
    /\ result_df = <<>>
    /\ scored_df = <<>>
    /\ args_n = 0
    /\ args = ArgsOf("featurize")
    /\ top_users = <<>>
    /\ arg_weights = <<>>
    /\ error = ""
    /\ written = {}
    /\ now = Now0

SpecSnap == InitSnap /\ [][Featurize]_vars

\* main.py --mode rank on a scored table read from --input
InitRank ==
    /\ pc = "rank"
    /\ \E n \in 0..MaxRanked : scored_df \in ScoredTables(n)
    /\ events = <<>>
    /\ gen = Idle
    /\ user = <<>>
    /\ user_df = <<>>
    /\ max_vals = <<>>
    /\ results = <<>>
    /\ result_df = <<>>
    /\ args_n = 0
    /\ args = ArgsOf("rank")
    /\ top_users = <<>>
    /\ columns = {"user_id", "score"}
    /\ arg_weights = <<>>
    /\ error = ""
    /\ written = {}
    /\ now = Now0

NextRank == RunRank

SpecRank == InitRank /\ [][NextRank]_vars

\* main.py --mode pipeline or --mode generate, started with no data files
InitPipe ==
    /\ \E mode \in {"pipeline", "generate"}, n \in 1..MaxUsersArg, seed \in 0..MaxSeed :
          /\ args = [mode |-> mode, n_users |-> n, seed |-> seed]
          /\ pc = IF mode = "pipeline" THEN "pipeline" ELSE "run_generate"
    /\ events = <<>>
    /\ gen = Idle
    /\ user = <<>>
    /\ user_df = <<>>
    /\ max_vals = <<>>
    /\ results = <<>>
    /\ result_df = <<>>
    /\ scored_df = <<>>
    /\ args_n = 20
    /\ top_users = <<>>
    /\ columns = RAW_COLUMNS
    /\ arg_weights = <<>>
    /\ error = ""
    /\ written = {}
    /\ now = Now0

\* the interpreter runs a started command until it returns or raises
SpecPipe == InitPipe /\ [][PipelineStep]_vars /\ WF_vars(PipelineStep)

Init == InitPipe \/ InitAgg \/ InitFeat \/ InitSnap \/ InitScore \/ InitScoreAny \/ InitRank

Next == PipelineStep \/ NextAgg \/ NextFeat \/ NextScore \/ NextRank

Spec == Init /\ [][Next]_vars

-----------------------------------------------------------------------------
(* Properties *)

\* C1: every score emitted by score_users_rules with the default weights is a
\* number between 0 and 100, also for a row with a missing feature cell.
C1_ScoreInRange ==
    \A i \in DOMAIN results :
        FGe(results[i].score, Num(0)) /\ FLe(results[i].score, Num(100))

\* C2: the label of every scored row is one of high, medium, low, and the
\* emitted score decides it: score >= 70 gives high, 40 <= score < 70 gives
\* medium, score < 40 gives low.
C2_LabelByThreshold ==
    \A i \in DOMAIN results :
        LET s == results[i].score
            l == results[i].score_label
        IN  /\ l \in {"high", "medium", "low"}
            /\ FGe(s, Num(70)) => l = "high"
            /\ FGe(s, Num(40)) /\ FLt(s, Num(70)) => l = "medium"
            /\ FLt(s, Num(40)) => l = "low"

\* a batch with a row scored exactly 70 (high), one in [40, 70) and labelled
\* medium
C2_Witness ==
    \E i, j \in DOMAIN results :
        /\ results[i].score = Num(70) /\ results[i].score_label = "high"
        /\ FGe(results[j].score, Num(40)) /\ results[j].score_label = "medium"

\* C3: ranking with n >= 0 returns min(n, N) distinct rows of the scored table
\* in non-increasing order of score, and no row left out has a score above
\* that of a returned row (a missing score counts as the lowest).
C3_TopN ==
    pc = "ranked" =>
        LET N == Len(scored_df)
            k == Len(top_users)
            ids == {top_users[i].user_id : i \in 1..k}
        IN  /\ k = IF args_n < N THEN args_n ELSE N
            /\ \A i \in 1..k : \E j \in 1..N : scored_df[j] = top_users[i]
            /\ Cardinality(ids) = k
            /\ \A i, j \in 1..k : i < j =>
                   \/ FGe(top_users[i].score, top_users[j].score)
                   \/ IsNaN(top_users[j].score)
            /\ \A j \in 1..N : \A i \in 1..k :
                   scored_df[j].user_id \notin ids =>
                       \/ FLe(scored_df[j].score, top_users[i].score)
                       \/ IsNaN(scored_df[j].score)

\* three users, the first of them scored lowest, ranked with n = 2
C3_Witness ==
    /\ pc = "ranked"
    /\ Len(scored_df) = 3
    /\ args_n = 2
    /\ scored_df[1].score = Num(10)
    /\ Len(top_users) = 2
    /\ top_users[1].score = Num(70)
    /\ top_users[2].score = Num(10)

\* C4: users of equal score appear in the ranked output in the order they
\* have in the scored table (user_id is the row's position in that table).
C4_StableRank ==
    pc = "ranked" =>
        \A i, j \in DOMAIN top_users :
            (i < j /\ ~IsNaN(top_users[i].score)
                   /\ top_users[i].score = top_users[j].score)
                => top_users[i].user_id < top_users[j].user_id

\* the session ids of user u with an event that carries the flag
FlaggedSessions(u, flag) ==
    {events[k].session_id :
        k \in {x \in DOMAIN events : events[x].user_id = u /\ events[x][flag] = 1}}

\* C5: bounces and spam_sessions of a user count the user's sessions that
\* have a flagged event, each once, so neither exceeds total_sessions.
C5_BouncesCountSessions ==
    pc = "featurized" =>
        \A i \in DOMAIN user :
            /\ user[i].bounces = Cardinality(FlaggedSessions(user[i].user_id, "bounce_flag"))
            /\ user[i].spam_sessions = Cardinality(FlaggedSessions(user[i].user_id, "spam_flag"))
            /\ user[i].bounces <= user[i].total_sessions
            /\ user[i].spam_sessions <= user[i].total_sessions

\* a user with a flagged one-event session and an unflagged two-event session
C5_Witness ==
    /\ pc = "featurized"
    /\ \E i \in DOMAIN user :
         /\ user[i].total_sessions = 2
         /\ user[i].total_events = 3
         /\ user[i].bounces = 1
         /\ \E k \in DOMAIN events :
              events[k].user_id = user[i].user_id /\ events[k].bounce_flag = 0

\* C6: the bounce_flag of a (user_id, session_id) group is 1 exactly when the
\* group has exactly one event.
C6_BounceIffSingleEvent ==
    pc = "featurized" =>
        \A i \in DOMAIN SessionDf(events) :
            (SessionDf(events)[i].bounce_flag = 1)
                <=> (SessionDf(events)[i].session_events = 1)

InUnit(x) == FGe(x, Num(0)) /\ FLe(x, Num(1))

\* C7: the three rates of every user are the quotients by total_sessions and
\* lie in [0, 1]; for a row built with no session the rate is 0.
C7_RatesInUnitInterval ==
    /\ Rate(0, 0) = Num(0)
    /\ pc = "featurized" =>
         \A i \in DOMAIN user :
            /\ InUnit(user[i].repeat_session_rate)
            /\ InUnit(user[i].bounce_rate)
            /\ InUnit(user[i].spam_rate)
            /\ FMul(user[i].repeat_session_rate, Num(user[i].total_sessions))
                  = Num(user[i].repeat_sessions)
            /\ FMul(user[i].bounce_rate, Num(user[i].total_sessions))
                  = Num(user[i].bounces)
            /\ FMul(user[i].spam_rate, Num(user[i].total_sessions))
                  = Num(user[i].spam_sessions)

\* a user with rates 1/2, 1/2 and 0, another with bounce rate 1
C7_Witness ==
    /\ pc = "featurized"
    /\ \E i, j \in DOMAIN user :
         /\ user[i].repeat_session_rate = Frac(1, 2)
         /\ user[i].bounce_rate = Frac(1, 2)
         /\ user[i].spam_rate = Num(0)
         /\ user[j].bounce_rate = Num(1)

\* C8: the user table has one row for each user_id of the events and no
\* other row, and total_sessions >= 1 in every row.
C8_OneRowPerUser ==
    pc = "featurized" =>
        /\ \A i, j \in DOMAIN user : i # j => user[i].user_id # user[j].user_id
        /\ {user[i].user_id : i \in DOMAIN user}
              = {events[k].user_id : k \in DOMAIN events}
        /\ \A i \in DOMAIN user : user[i].total_sessions >= 1

\* two users, one of them with two sessions
C8_Witness ==
    /\ pc = "featurized"
    /\ Len(user) = 2
    /\ \E i \in DOMAIN user : user[i].total_sessions = 2 /\ user[i].total_events = 3

HasEvent(u, ev) ==
    \E k \in DOMAIN events : events[k].user_id = u /\ events[k].event_type = ev

\* C9: converted is 1 when the user has a signup event and a calendar_booking
\* event in any of the sessions, equivalently signups > 0 and
\* calendar_bookings > 0, and 0 otherwise.
C9_ConvertedIff ==
    pc = "featurized" =>
        \A i \in DOMAIN user :
            /\ user[i].converted \in {0, 1}
            /\ user[i].converted = 1
                  <=> (user[i].signups > 0 /\ user[i].calendar_bookings > 0)
            /\ user[i].converted = 1
                  <=> (HasEvent(user[i].user_id, "signup")
                       /\ HasEvent(user[i].user_id, "calendar_booking"))

\* a user who signed up in one session and booked in another, and a user who
\* only signed up
C9_Witness ==
    /\ pc = "featurized"
    /\ \E i, j \in DOMAIN user :
         /\ user[i].converted = 1
         /\ user[i].total_sessions = 2
         /\ \E a, b \in DOMAIN events :
              /\ events[a].user_id = user[i].user_id
              /\ events[b].user_id = user[i].user_id
              /\ events[a].event_type = "signup"
              /\ events[b].event_type = "calendar_booking"
              /\ events[a].session_id # events[b].session_id
         /\ user[j].signups > 0
         /\ user[j].converted = 0

\* C10: a converted user scored with the default weights and thresholds gets
\* a score >= 60 and the label medium or high.
C10_ConvertedAtLeast60 ==
    \A i \in DOMAIN results :
        user_df[i].converted = 1 =>
            /\ FGe(results[i].score, Num(60))
            /\ results[i].score_label \in {"medium", "high"}

\* the features of row i whose contribution is > 0
Positive(i) ==
    {f \in DOMAIN results[i].feature_contributions :
        FGt(results[i].feature_contributions[f], Num(0))}

\* the features the explanation of row i lists
Listed(i) ==
    {results[i].explanation.parts[k].feature : k \in DOMAIN results[i].explanation.parts}

\* the explanation of row i lists min(3, number of features with a
\* contribution > 0) features, each with a contribution > 0 and shown with
\* its points to one decimal, in descending order of contribution, no
\* feature left out contributing more than a listed one; it is "No strong
\* signals" exactly when no feature has a contribution > 0
ExplanationOk(i) ==
    LET c == results[i].feature_contributions
        e == results[i].explanation
        npos == Cardinality(Positive(i))
    IN  /\ (e.text = "No strong signals") <=> (Positive(i) = {})
        /\ Len(e.parts) = IF npos < 3 THEN npos ELSE 3
        /\ Cardinality(Listed(i)) = Len(e.parts)
        /\ \A k \in DOMAIN e.parts :
               /\ e.parts[k].feature \in Positive(i)
               /\ e.parts[k].pts = Round(c[e.parts[k].feature], 10)
        /\ \A j, k \in DOMAIN e.parts :
               j < k => FGe(c[e.parts[j].feature], c[e.parts[k].feature])
        /\ \A f \in Positive(i) \ Listed(i) : \A g \in Listed(i) :
               FLe(c[f], c[g])

\* C11: the explanation of every scored row lists, in descending order of
\* contribution, the (at most three) largest contributions that are > 0,
\* and is "No strong signals" exactly when no contribution is > 0.
C11_ExplanationTop3 == \A i \in DOMAIN results : ExplanationOk(i)

\* row i has no missing (NaN) contribution
NoMissingContribution(i) ==
    \A f \in DOMAIN results[i].feature_contributions :
        ~IsNaN(results[i].feature_contributions[f])

\* the explanation is as C11 says for every row without a missing contribution
Explanation_WithoutMissing ==
    \A i \in DOMAIN results : NoMissingContribution(i) => ExplanationOk(i)

\* the sum of the contribution points of row i over the first k features
RECURSIVE PointsSum(_, _)
PointsSum(i, k) ==
    IF k = 0 THEN Num(0)
    ELSE FAdd(PointsSum(i, k - 1), results[i].feature_contributions[FEATURES[k]])

\* raw_score of row i as score_user_row computes it
RawScoreOf(i) == RawScore(Feats(user_df[i], max_vals), DEFAULT_WEIGHTS)

\* C12: for every scored row the contribution points, summed and divided by
\* 100, are within 0.01 of the row's raw_score.
C12_ContributionsSumToRaw ==
    \A i \in DOMAIN results :
        LET d == FSub(FDiv(PointsSum(i, Len(FEATURES)), Num(100)), RawScoreOf(i))
        IN  FLe(d, Frac(1, 100)) /\ FGe(d, Frac(-1, 100))

\* the sum is within 0.01 of raw_score for every row without a missing
\* contribution
ContributionsSum_WithoutMissing ==
    \A i \in DOMAIN results :
        NoMissingContribution(i) =>
            LET d == FSub(FDiv(PointsSum(i, Len(FEATURES)), Num(100)), RawScoreOf(i))
            IN  FLe(d, Frac(1, 100)) /\ FGe(d, Frac(-1, 100))

\* C13: feature_contributions of every scored row has an entry for each of
\* the 8 weighted features, whatever its value and whether or not the
\* explanation mentions it.
C13_AllContributionsKept ==
    \A i \in DOMAIN results :
        DOMAIN results[i].feature_contributions
            = {FEATURES[k] : k \in DOMAIN FEATURES}

\* a row with a contribution of 0 and a row with more than three positive
\* contributions, the explanation listing three of them
C13_Witness ==
    \E i, j \in DOMAIN results :
        /\ \E f \in DOMAIN results[i].feature_contributions :
               results[i].feature_contributions[f] = Num(0)
        /\ Cardinality(Positive(j)) > 3
        /\ Len(results[j].explanation.parts) = 3

\* C18: for every row of the feature table and the population maxima of the
\* table, score_row of find_user_features gives the score, label,
\* explanation and feature_contributions that score_user_row gives with the
\* default weights and thresholds.
C18_ScoreRowEquivalent ==
    pc = "scored" =>
        \A i \in DOMAIN results : score_row(user_df[i], max_vals) = results[i]

\* a batch with a row scored 100 whose explanation lists three features and
\* a row with a missing score and no strong signal
C18_Witness ==
    \E i, j \in DOMAIN results :
        /\ pc = "scored"
        /\ results[i].score = Num(100)
        /\ Len(results[i].explanation.parts) = 3
        /\ IsNaN(results[j].score)
        /\ results[j].explanation.text = "No strong signals"

\* C20: the recency bonus of a row is (30 - days) / 30 when
\* days_since_last_event <= 30 and 0 otherwise (0 for a missing value), and
\* lies in [0, 1] for every value of days_since_last_event.
C20_RecencyBonus ==
    \A i \in DOMAIN results :
        LET days == user_df[i].days_since_last_event
            bonus == RowRecencyBoost(user_df[i])
        IN  /\ FLe(days, Num(30)) => bonus = FDiv(FSub(Num(30), days), Num(30))
            /\ ~FLe(days, Num(30)) => bonus = Num(0)
            /\ InUnit(bonus)

\* the bonus is as C20 says for every row whose days_since_last_event is
\* missing or not negative
RecencyBonus_NotNegativeDays ==
    \A i \in DOMAIN results :
        LET days == user_df[i].days_since_last_event
            bonus == RowRecencyBoost(user_df[i])
        IN  ~FLt(days, Num(0)) =>
               /\ FLe(days, Num(30)) => bonus = FDiv(FSub(Num(30), days), Num(30))
               /\ ~FLe(days, Num(30)) => bonus = Num(0)
               /\ InUnit(bonus)

\* C14: when the raw events lack a required column, run_featurize fails with
\* a DataFormatError and writes no user-features file.
C14_MissingColumnFatal ==
    (~(REQUIRED_COLUMNS \subseteq columns) /\ pc # "featurize") =>
        /\ pc = "failed"
        /\ error = "DataFormatError"
        /\ "user_features.csv" \notin written

\* with a required column missing run_featurize fails with an exception and
\* writes no user-features file
MissingColumn_NoOutput ==
    (~(REQUIRED_COLUMNS \subseteq columns) /\ pc # "featurize") =>
        /\ pc = "failed"
        /\ error # ""
        /\ user = <<>>
        /\ "user_features.csv" \notin written

\* C15: scoring a feature table of zero rows does not complete with an empty
\* scored table.
C15_EmptyInputFatal == ~(pc = "scored" /\ user_df = <<>> /\ result_df = <<>>)

\* the table score_users_rules was given, every referenced feature it lacks
\* filled with 0
Filled == EnsureColumns(user_df, {FEATURES[k] : k \in DOMAIN FEATURES})

\* scoring has not failed, and the rows scored are scored as the rows of
\* the filled table
ScoringTotal ==
    /\ error = ""
    /\ pc # "failed"
    /\ pc = "scored" =>
          \A i \in DOMAIN results :
              results[i] = score_user_row(Filled[i], ComputeMaxVals(Filled),
                                          arg_weights, DEFAULT_THRESHOLDS)

\* C16: scoring does not fail when the feature table lacks the column of a
\* referenced feature, whatever the weights, and the feature is treated as 0
\* for every user.
C16_ScoringTotal == ScoringTotal

\* scoring is total when the weights name every feature whose population
\* maximum is computed, as the default weights do
ScoringTotal_WeightsCoverMaxima ==
    MAX_COLUMNS \subseteq DOMAIN WeightsOrDefault(arg_weights) => ScoringTotal

\* the rows of two runs agree in every field but days_since_last_event
SameExceptDays(a, b) ==
    /\ DOMAIN a = DOMAIN b
    /\ \A f \in DOMAIN a \ {"days_since_last_event"} : a[f] = b[f]

FirstIndex(col, v) == CHOOSE i \in DOMAIN col : col[i] = v /\ \A j \in 1..(i - 1) : col[j] # v

\* the most frequent value of col, the earliest in col among the tied ones
FirstSeenMode(col) ==
    CHOOSE v \in Modes(col) :
        \A w \in Modes(col) : FirstIndex(col, v) <= FirstIndex(col, w)

\* the primary devices of the sessions of user u, in session order
SessionDevices(u) ==
    Column(SelectSeq(SessionDf(events), LAMBDA r : r.user_id = u), "primary_device")

\* C19: primary_device of a session is the most frequent device of its
\* events and primary_device of a user the most frequent one of the user's
\* sessions; among values tied for the highest count it is the one that
\* occurs first.
C19_PrimaryDeviceFirstSeen ==
    pc = "featurized" =>
        /\ \A k \in DOMAIN SessionDf(events) :
              LET r == SessionDf(events)[k]
              IN  r.primary_device
                    = FirstSeenMode(Column(Group(events, r.user_id, r.session_id), "device"))
        /\ \A i \in DOMAIN user :
              user[i].primary_device = FirstSeenMode(SessionDevices(user[i].user_id))

\* primary_device is one of the most frequent values
PrimaryDevice_MostFrequent ==
    pc = "featurized" =>
        /\ \A k \in DOMAIN SessionDf(events) :
              LET r == SessionDf(events)[k]
              IN  r.primary_device
                    \in Modes(Column(Group(events, r.user_id, r.session_id), "device"))
        /\ \A i \in DOMAIN user :
              user[i].primary_device \in Modes(SessionDevices(user[i].user_id))

\* the row of user i with its days_since_last_event missing, which earns
\* no recency bonus
WithoutRecency(i) == [user_df[i] EXCEPT !.days_since_last_event = NaN]

\* repeat_session_rate + 0.25 * bonus of user i, before the cap
BoostedSum(i) ==
    FAdd(RateOrZero(user_df[i]), FMul(Frac(25, 100), RowRecencyBoost(user_df[i])))

\* C21: the recency bonus reaches the score only through the
\* repeat_session_rate feature: the other seven contributions are those of
\* the same row without a bonus.  The boosted feature is
\* min(1.0, repeat_session_rate + 0.25 * bonus), never above 1.0, and its
\* contribution never exceeds its weight, 5 points with the default weights.
C21_RecencyBoostCapped ==
    pc = "scored" => \A i \in DOMAIN results :
        LET feats == Feats(user_df[i], max_vals)
            plain == Contribs(Feats(WithoutRecency(i), max_vals), DEFAULT_WEIGHTS)
        IN  /\ feats.repeat_session_rate
                  = (IF FLt(BoostedSum(i), Num(1)) THEN BoostedSum(i) ELSE Num(1))
            /\ FLe(feats.repeat_session_rate, Num(1))
            /\ FLe(results[i].feature_contributions.repeat_session_rate, Num(5))
            /\ \A f \in DOMAIN DEFAULT_WEIGHTS \ {"repeat_session_rate"} :
                  results[i].feature_contributions[f] = plain[f]

\* a scored user whose rate and bonus add up to more than 1.0: the feature
\* is cut to 1.0 and contributes the 5 points of its weight
C21_Witness ==
    pc = "scored" /\ \E i \in DOMAIN results :
        /\ FGt(RowRecencyBoost(user_df[i]), Num(0))
        /\ FGt(BoostedSum(i), Num(1))
        /\ results[i].feature_contributions.repeat_session_rate = Num(5)

\* the table df with its rows in the order p
Permuted(df, p) == [k \in DOMAIN df |-> df[p[k]]]

\* C22: the five population maxima are computed from the complete batch
\* before the first user is scored and are not written afterwards; the
\* result of a user is a function of the user's row and of those maxima,
\* so that the batch with its rows in any other order gives every user the
\* same score, label, explanation and contributions (it has the same
\* maxima, or else every row scored against its maxima has the same result).
C22_OrderIndependent ==
    [][/\ pc = "score_rows" =>
             /\ max_vals' = max_vals
             /\ user_df' = user_df
             /\ results' # results =>
                   results' = Append(results,
                                     score_user_row(user_df[Len(results) + 1],
                                                    ComputeMaxVals(user_df),
                                                    DEFAULT_WEIGHTS, DEFAULT_THRESHOLDS))
       /\ pc' = "scored" =>
             \A p \in Perms(Len(user_df)) :
                 LET t  == Permuted(user_df, p)
                     mv == ComputeMaxVals(t)
                 IN  \/ mv = max_vals
                     \/ \A k \in DOMAIN t :
                            score_user_row(t[k], mv, DEFAULT_WEIGHTS, DEFAULT_THRESHOLDS)
                                = results[p[k]]]_vars

\* a scored batch of two users whose results differ and in which the second
\* user sets a maximum
C22_Witness ==
    /\ pc = "scored"
    /\ Len(results) = 2
    /\ results[1] # results[2]
    /\ user_df[1].page_views < user_df[2].page_views
    /\ max_vals.page_views = Num(user_df[2].page_views)

\* the value of column c of a table, read as a float
Cell(df, i, c) == IF c \in FLOAT_COLUMNS THEN df[i][c] ELSE Num(df[i][c])

\* every user has 0 for column c
AllZero(c) == \A i \in DOMAIN user_df : Cell(user_df, i, c) = Num(0)

\* the five max-normalized features of user i are in [0, 1], and 0.0 where
\* every user of the batch has 0
NormalizedOk(i) ==
    \A c \in MAX_COLUMNS :
        /\ InUnit(Feats(user_df[i], max_vals)[c])
        /\ AllZero(c) => Feats(user_df[i], max_vals)[c] = Num(0)

\* C23: every population maximum is at least 1; when every user has 0 for a
\* feature, its normalized value is 0.0 for every user; for every user the
\* normalized value of each of the five max-normalized features is in [0, 1].
C23_NormalizedInUnit ==
    pc = "scored" =>
        /\ \A c \in MAX_COLUMNS : FGe(max_vals[c], Num(1))
        /\ \A i \in DOMAIN user_df : NormalizedOk(i)

\* the maxima are at least 1, and the normalized values are as C23 says for
\* every user without a missing recent_pages_viewed or account_balance_usd
Normalized_WithoutMissing ==
    pc = "scored" =>
        /\ \A c \in MAX_COLUMNS : FGe(max_vals[c], Num(1))
        /\ \A i \in DOMAIN user_df :
              (~IsNaN(user_df[i].recent_pages_viewed)
                  /\ ~IsNaN(user_df[i].account_balance_usd)) => NormalizedOk(i)

\* users i and j have different positive counts in column c and the same
\* value in every other column but user_id
DifferOnlyInPositive(i, j, c) ==
    /\ user_df[i][c] > 0
    /\ user_df[j][c] > 0
    /\ user_df[i][c] # user_df[j][c]
    /\ \A d \in DOMAIN user_df[i] \ {c, "user_id"} : user_df[i][d] = user_df[j][d]

\* C24: signups and calendar_bookings enter the score as presence: two users
\* of one batch who differ only in having different positive counts of
\* signups, or of calendar_bookings, get the same score, label, explanation
\* and contributions.
C24_BinaryPresence ==
    pc = "scored" =>
        \A c \in {"signups", "calendar_bookings"} :
            \A i, j \in DOMAIN user_df :
                DifferOnlyInPositive(i, j, c) => results[i] = results[j]

\* a scored batch of a user with one signup and a user with two, alike in
\* everything else and scored above 0
C24_Witness ==
    /\ pc = "scored"
    /\ \E i, j \in DOMAIN user_df :
          /\ DifferOnlyInPositive(i, j, "signups")
          /\ user_df[i].signups = 1
          /\ user_df[j].signups = 2
          /\ FGt(results[i].score, Num(0))
          /\ results[i] = results[j]

\* the same for calendar_bookings
C24_WitnessBookings ==
    /\ pc = "scored"
    /\ \E i, j \in DOMAIN user_df : DifferOnlyInPositive(i, j, "calendar_bookings")

\* the result of user i scored in the batch of the first k users only
ScoredAmong(i, k) ==
    score_user_row(user_df[i], ComputeMaxVals(SubSeq(user_df, 1, k)),
                   DEFAULT_WEIGHTS, DEFAULT_THRESHOLDS)

\* the score of user i scored in the batch of the first k users only
ScoreAmong(i, k) ==
    Score(RawScore(Feats(user_df[i], ComputeMaxVals(SubSeq(user_df, 1, k))),
                   DEFAULT_WEIGHTS))

\* C28: adding further users to a batch never raises the score of a user
\* already in it and leaves the user's result unchanged when none of the
\* five maxima changes: the batch reaches a user's score only through the
\* maxima.
C28_AddingUsersNeverRaises ==
    pc = "scored" =>
        \A k \in 1..(Len(user_df) - 1) :
            \A i \in 1..k :
                /\ ~FGt(results[i].score, ScoreAmong(i, k))
                /\ ComputeMaxVals(SubSeq(user_df, 1, k)) = max_vals
                       => results[i] = ScoredAmong(i, k)

\* a scored batch whose second user raises a maximum and thereby lowers the
\* score of the first
C28_Witness ==
    /\ pc = "scored"
    /\ Len(user_df) = 2
    /\ ComputeMaxVals(SubSeq(user_df, 1, 1)) # max_vals
    /\ FLt(results[1].score, ScoreAmong(1, 1))

\* the four columns score_users_rules adds
ADDED_COLUMNS == {"score", "score_label", "explanation", "feature_contributions"}

\* a step of score_users_rules leaves the caller's table as it was, and the
\* returned table has the rows of the caller's table in their order, every
\* column of it unchanged, and the four added columns
FrameStep ==
    /\ pc \in {"score_rules", "score_rows"} => user_df' = user_df
    /\ (pc = "score_rows" /\ pc' = "scored") =>
          /\ Len(result_df') = Len(user_df)
          /\ \A i \in DOMAIN user_df :
                /\ DOMAIN result_df'[i] = DOMAIN user_df[i] \cup ADDED_COLUMNS
                /\ \A c \in DOMAIN user_df[i] : result_df'[i][c] = user_df[i][c]
                /\ \A c \in ADDED_COLUMNS : result_df'[i][c] = results[i][c]

\* C29: score_users_rules returns one output row per input row in the same
\* order, with every input column unchanged and only score, score_label,
\* explanation and feature_contributions added, and it does not modify the
\* feature table of the caller.
C29_FrameEffect == [][FrameStep]_vars

\* the frame is as C29 says whenever the table has every weighted feature
\* as a column
FrameEffect_ColumnsPresent ==
    [][DOMAIN WeightsOrDefault(arg_weights) \subseteq columns => FrameStep]_vars

\* the events of user u, and those of them with a parseable timestamp
EventsOf(u) == SelectSeq(events, LAMBDA e : e.user_id = u)

ParsedOf(u) == SelectSeq(events, LAMBDA e : e.user_id = u /\ ~IsNaN(e.timestamp))

\* ts is the latest of the parseable timestamps of user u, missing when
\* the user has none
IsLastParsed(u, ts) ==
    IF ParsedOf(u) = <<>> THEN IsNaN(ts)
    ELSE /\ \E k \in DOMAIN ParsedOf(u) : ParsedOf(u)[k].timestamp = ts
         /\ \A k \in DOMAIN ParsedOf(u) : FLe(ParsedOf(u)[k].timestamp, ts)

\* C25: an event with an unparseable timestamp does not fail the run and is
\* not dropped: it counts toward its session, toward total_events and
\* toward the count of its event type, and is left out only of the maximum
\* taken for last_event_ts; a user whose timestamps are all unparseable
\* has a missing last_event_ts.
C25_UnparseableTimestampKept ==
    /\ pc = "failed" => ~(REQUIRED_COLUMNS \subseteq columns)
    /\ pc = "featurized" =>
          /\ {user[i].user_id : i \in DOMAIN user} = UserIdsOf(events)
          /\ \A k \in DOMAIN SessionDf(events) :
                LET r == SessionDf(events)[k]
                IN  r.session_events = Len(Group(events, r.user_id, r.session_id))
          /\ \A i \in DOMAIN user :
                LET u == user[i].user_id
                IN  /\ user[i].total_events = Len(EventsOf(u))
                    /\ user[i].page_views
                          = Len(SelectSeq(EventsOf(u), LAMBDA e : e.event_type = "page_view"))
                    /\ user[i].total_sessions
                          = Cardinality({EventsOf(u)[k].session_id : k \in DOMAIN EventsOf(u)})
                    /\ IsLastParsed(u, user[i].last_event_ts)

\* a featurized file with a user who has an event with an unparseable
\* timestamp besides a parseable one, and a user who has none parseable
C25_Witness ==
    /\ pc = "featurized"
    /\ \E i, j \in DOMAIN user :
          /\ Len(ParsedOf(user[i].user_id)) = 1
          /\ user[i].total_events = 2
          /\ user[i].page_views = 2
          /\ ~IsNaN(user[i].last_event_ts)
          /\ ParsedOf(user[j].user_id) = <<>>
          /\ user[j].total_events = 1
          /\ IsNaN(user[j].last_event_ts)

\* the rows of the session table of user u, in the order of the table
SessionsOf(u) == SelectSeq(SessionDf(events), LAMBDA r : r.user_id = u)

\* the snapshot columns the model carries
SNAPSHOT_COLUMNS == {"account_balance_usd", "recent_pages_viewed"}

\* the snapshot of every session is that of its first event, the snapshot of
\* every user that of the user's first session
SnapshotOfFirst ==
    /\ \A k \in DOMAIN SessionDf(events) :
          LET r == SessionDf(events)[k]
          IN  \A c \in SNAPSHOT_COLUMNS :
                  r[c] = Group(events, r.user_id, r.session_id)[1][c]
    /\ \A i \in DOMAIN user :
          \A c \in SNAPSHOT_COLUMNS : user[i][c] = SessionsOf(user[i].user_id)[1][c]

\* C26: the snapshot fields of every (user_id, session_id) group are the
\* values carried by the first event of the group in input order, and the
\* snapshot of a user is that of the user's first session.
C26_SnapshotOfFirstEvent == pc = "featurized" => SnapshotOfFirst

\* the snapshot is as C26 says when no event lacks a snapshot value
Snapshot_WithoutMissing ==
    pc = "featurized" =>
        ((\A k \in DOMAIN events : \A c \in SNAPSHOT_COLUMNS : ~IsNaN(events[k][c]))
            => SnapshotOfFirst)

\* a featurized file with a session whose later event carries another
\* balance than its first one, both present
Snapshot_Witness ==
    /\ pc = "featurized"
    /\ \A k \in DOMAIN events : ~IsNaN(events[k].account_balance_usd)
    /\ \E k \in DOMAIN SessionDf(events) :
          LET r == SessionDf(events)[k]
              g == Group(events, r.user_id, r.session_id)
          IN  Len(g) >= 2 /\ g[1].account_balance_usd # g[2].account_balance_usd

\* the eight per-event-type count columns of the user table
COUNT_COLUMNS == {"page_views", "pricing_page_views", "search_events", "chat_messages",
                  "doc_downloads", "demo_request_clicks", "signups", "calendar_bookings"}

\* the sum of the eight counts of a row of the user table
CountsSum(r) ==
    r.page_views + r.pricing_page_views + r.search_events + r.chat_messages
        + r.doc_downloads + r.demo_request_clicks + r.signups + r.calendar_bookings

\* every event of user u has one of the eight enumerated types
AllEnumerated(u) ==
    \A k \in DOMAIN EventsOf(u) :
        \E j \in DOMAIN EVENT_TYPES : EventsOf(u)[k].event_type = EVENT_TYPES[j]

\* C27: for every user of the aggregated table each of the eight
\* per-event-type counts is a non-negative integer, 0 and not missing when
\* the user has no event of the type; the eight counts sum to at most
\* total_events, and to total_events when every event of the user has one
\* of the eight enumerated types.
C27_CountsDefined ==
    pc = "featurized" =>
        \A i \in DOMAIN user :
            /\ \A c \in COUNT_COLUMNS : c \in DOMAIN user[i] /\ user[i][c] \in Nat
            /\ ~HasEvent(user[i].user_id, "signup") => user[i].signups = 0
            /\ ~HasEvent(user[i].user_id, "page_view") => user[i].page_views = 0
            /\ CountsSum(user[i]) <= user[i].total_events
            /\ AllEnumerated(user[i].user_id) => CountsSum(user[i]) = user[i].total_events

\* a featurized file with a user whose events all have enumerated types, of
\* two kinds, and a user with an event of another type
C27_Witness ==
    /\ pc = "featurized"
    /\ \E i, j \in DOMAIN user :
          /\ AllEnumerated(user[i].user_id)
          /\ user[i].signups = 1
          /\ user[i].page_views = 1
          /\ user[i].total_events = 2
          /\ ~AllEnumerated(user[j].user_id)
          /\ CountsSum(user[j]) < user[j].total_events

\* the stage at position k of the pipeline has started
Started(k) == \E j \in k..Len(PIPELINE_STAGES) : pc = PIPELINE_STAGES[j]

\* C30: in pipeline mode the stages run in the order generate, featurize,
\* score-rules, rank, explain, each starting only when the previous one has
\* finished and written its file, and a run started with no data files
\* eventually reaches PIPELINE COMPLETE with raw_events, user_features,
\* user_scores and top_users written.
C30_PipelineCompletes ==
    /\ []((args.mode = "pipeline" /\ Started(3)) => "raw_events.csv" \in written)
    /\ []((args.mode = "pipeline" /\ Started(4)) => "user_features.csv" \in written)
    /\ []((args.mode = "pipeline" /\ Started(5)) => "user_scores.csv" \in written)
    /\ []((args.mode = "pipeline" /\ Started(6)) => "top_users.csv" \in written)
    /\ (args.mode = "pipeline" /\ pc = "pipeline" /\ written = {})
          ~> (pc = "complete" /\ DATA_FILES \subseteq written)

\* a pipeline run never starts a stage before run_generate has returned, and
\* ends in run_generate with an ImportError and no file written
Pipeline_FailsInGenerate ==
    /\ [](args.mode = "pipeline" =>
            (pc \in {"pipeline", "run_generate", "failed"} /\ written = {}))
    /\ (args.mode = "pipeline" /\ pc = "pipeline")
          ~> (pc = "failed" /\ error = "ImportError")
====
